---------------------------- MODULE Spec2Model ----------------------------
(***************************************************************************)
(* A model of main.py of AadharCapitalBackend: the market-data fetchers,   *)
(* the news fetchers, the form relay (email, spreadsheet) and the two      *)
(* routes /market-summary and /submit-form.                                *)
(*                                                                         *)
(* Every function of main.py has its own variables and its own             *)
(* specification; a specification leaves the other functions' variables    *)
(* at rest (their ...Idle values).                                         *)
(*                                                                         *)
(* Conventions.                                                            *)
(*  - A value that may be None is a sequence: << >> is Python's None and   *)
(*    <<v>> is the value v.  A function that has not yet returned has the  *)
(*    return value << >>, and <<r>> once it returned r.                    *)
(*  - A Python dict whose key order matters (form_data) is a sequence of   *)
(*    <<key, value>> pairs with distinct keys; a dict read only by key     *)
(*    (indices_data, a news item, a stock row) is a TLA+ function.         *)
(*  - Upstream close prices are floats that are whole multiples of 1/8     *)
(*    (exact in binary floating point), given as an integer number of      *)
(*    eighths.  A value produced by round(x, 2) is given as an integer     *)
(*    number of hundredths.                                                *)
(***************************************************************************)
EXTENDS Integers, Sequences, FiniteSets, TLC

VARIABLES
    \* fetch_indian_indices
    mkt_closes,     \* the closes the provider holds, oldest first (eighths)
    mkt_volume,     \* the provider's Volume column: None (absent) or a number
    idx_i,          \* position of the for loop in INDIAN_INDICES (1-based)
    indices_data,   \* the dict being built
    hist_log,       \* what ticker.history answered for each index so far
    idx_ret,        \* the return value
    \* fetch_top_stocks
    stk_call,       \* None, or the call made and what the screener answered
    stk_ret,        \* the return value
    \* fetch_indian_news
    news_symbols,   \* the argument symbols
    news_i,         \* position of the for loop in symbols (1-based)
    news_results,   \* the list being built
    seen_links,     \* the set seen_links
    news_log,       \* what ticker.news[:1] gave for each symbol so far
    news_ret,       \* the return value
    \* submit_form and send_email
    form,           \* the request's form, as form.items() yields it
    password,       \* EMAIL_CONFIG["password"]
    clock,          \* the number of datetime.now() calls so far
    sf_pc,          \* where the request is
    form_data,      \* submit_form's form_data
    subject,        \* submit_form's subject
    msg,            \* the message send_email built
    smtp_log,       \* the SMTP calls that succeeded, in order
    smtp_failed,    \* None, or the SMTP call that raised
    conn_open,      \* whether an SMTP connection is open
    delivered,      \* the messages the SMTP server accepted
    email_ret,      \* send_email's return value
    response,       \* the HTTP response of /submit-form
    \* add_to_google_sheet
    sheet0,         \* the sheet's rows before the first call
    sheet,          \* the sheet's rows
    sheet_calls,    \* the form_data of each successful call so far
    sheet_rets,     \* the return value of each call so far
    \* market_summary
    ms_pc,          \* the sub-fetch market_summary is about to call
    ms_upstream,    \* what the provider answered to each sub-fetch so far
    ms_parts,       \* the value each sub-fetch returned so far
    ms_response     \* the HTTP response of /market-summary

idx_vars == <<mkt_closes, mkt_volume, idx_i, indices_data, hist_log, idx_ret>>
stk_vars == <<stk_call, stk_ret>>
news_vars == <<news_symbols, news_i, news_results, seen_links, news_log, news_ret>>
form_vars == <<form, password, clock, sf_pc, form_data, subject, msg, smtp_log,
               smtp_failed, conn_open, delivered, email_ret, response>>
sheet_vars == <<sheet0, sheet, sheet_calls, sheet_rets>>
ms_vars == <<ms_pc, ms_upstream, ms_parts, ms_response>>

vars == <<idx_vars, stk_vars, news_vars, form_vars, sheet_vars, ms_vars>>

---------------------------------------------------------------------------
(* Bounds of the model. *)
MaxBars == 2
MaxClose == 3
MaxVolume == 1
MaxRows == 6
MaxSymbols == 3
MaxLinks == 2
MaxFields == 2
MaxCalls == 2

None == << >>
Some(v) == <<v>>
Pending == << >>
Returned(r) == <<r>>

---------------------------------------------------------------------------
(* Generic helpers. *)

\* d[k] = v of a Python dict read by key.
Put(d, k, v) == [x \in (DOMAIN d) \cup {k} |-> IF x = k THEN v ELSE d[x]]

\* d.get(k, default)
GetOr(d, k, default) == IF k \in DOMAIN d THEN d[k] ELSE default

EmptyDict == [x \in {} |-> None]

\* round(n/d, 0) for d > 0 as Python rounds an exactly known value: to the
\* nearest integer, a tie to the even one.
RoundHalfEven(n, d) ==
    LET q == n \div d
        r == n % d
    IN  IF 2 * r < d THEN q
        ELSE IF 2 * r > d THEN q + 1
        ELSE IF q % 2 = 0 THEN q ELSE q + 1

\* round(float(x), 2) of x = n/8, in hundredths.
Round2OfEighths(n) == RoundHalfEven(n * 100, 8)

---------------------------------------------------------------------------
(* fetch_indian_indices *)

INDIAN_INDICES ==
    << [index_name |-> "nifty",        symbol |-> "^NSEI"],
       [index_name |-> "sensex",       symbol |-> "^BSESN"],
       [index_name |-> "banknifty",    symbol |-> "^NSEBANK"],
       [index_name |-> "midcap_nifty", symbol |-> "NIFTYMIDCAP50.NS"] >>

IndexNames == {INDIAN_INDICES[i].index_name : i \in 1..Len(INDIAN_INDICES)}

\* index_name.replace("_", " ").title()
TitleName(index_name) ==
    CASE index_name = "nifty"        -> "Nifty"
      [] index_name = "sensex"       -> "Sensex"
      [] index_name = "banknifty"    -> "Banknifty"
      [] index_name = "midcap_nifty" -> "Midcap Nifty"

\* What yf.Ticker(symbol).history(period="2d") can do: raise, or return a
\* frame holding the provider's last n bars (n = 0: an empty frame).
HistoryOutcomes(closes, volume) ==
    {[kind |-> "raise"]} \cup
    {[kind |-> "frame",
      Close |-> SubSeq(closes, Len(closes) - n + 1, Len(closes)),
      Volume |-> volume] : n \in 0..Len(closes)}

\* (change / prev_close) * 100 if prev_close != 0 else 0, then
\* round(float(change_percent), 2): hundredths of a percent.
ChangePercentNoScale(current_price, prev_close) ==
    IF prev_close # 0
    THEN RoundHalfEven((current_price - prev_close) * 100, prev_close)
    ELSE 0

ChangePercent(current_price, prev_close) ==
    IF prev_close # 0
    THEN RoundHalfEven((current_price - prev_close) * 100 * 100, prev_close)
    ELSE 0

\* int(hist['Volume'].iloc[-1]) if 'Volume' in hist.columns and not
\* hist['Volume'].empty else 0
VolumeOf(hist) == IF hist.Volume = None THEN 0 ELSE hist.Volume[1]

LiveEntry(idx, hist) ==
    LET n             == Len(hist.Close)
        current_price == hist.Close[n]
        prev_close    == IF n >= 2 THEN hist.Close[n - 1] ELSE current_price
        change        == IF n >= 2 THEN current_price - prev_close ELSE 0
        change_percent == IF n >= 2 THEN ChangePercent(current_price, prev_close)
                          ELSE 0
    IN  [symbol         |-> idx.symbol,
         name           |-> TitleName(idx.index_name),
         current_price  |-> Some(Round2OfEighths(current_price)),
         previous_close |-> Some(Round2OfEighths(prev_close)),
         change         |-> Some(Round2OfEighths(change)),
         change_percent |-> Some(change_percent),
         volume         |-> Some(VolumeOf(hist)),
         status         |-> "live_data"]

BlankEntry(idx, status) ==
    [symbol         |-> idx.symbol,
     name           |-> TitleName(idx.index_name),
     current_price  |-> None,
     previous_close |-> None,
     change         |-> None,
     change_percent |-> None,
     volume         |-> None,
     status         |-> status]

\* The except branch of the loop body dropped: the index gets no entry.
OnHistoryErrorSkip(data, idx) == data

\* The except branch of the loop body.
OnHistoryError(data, idx) == Put(data, idx.index_name, BlankEntry(idx, "error"))

\* One iteration of the for loop: the dict after it.
IndexIteration(data, idx, outcome) ==
    IF outcome.kind = "raise"
    THEN OnHistoryError(data, idx)
    ELSE IF Len(outcome.Close) >= 1
         THEN Put(data, idx.index_name, LiveEntry(idx, outcome))
         ELSE Put(data, idx.index_name, BlankEntry(idx, "no_data"))

IdxIdle ==
    /\ mkt_closes = << >>
    /\ mkt_volume = None
    /\ idx_i = 1
    /\ indices_data = EmptyDict
    /\ hist_log = << >>
    /\ idx_ret = Pending

IdxInit ==
    /\ mkt_closes \in [1..MaxBars -> 0..MaxClose]
    /\ mkt_volume \in {None} \cup {Some(v) : v \in 0..MaxVolume}
    /\ idx_i = 1
    /\ indices_data = EmptyDict
    /\ hist_log = << >>
    /\ idx_ret = Pending

\* The loop body for the index at idx_i, whatever the provider answers.
FetchIndexStep ==
    /\ idx_ret = Pending
    /\ idx_i <= Len(INDIAN_INDICES)
    /\ \E o \in HistoryOutcomes(mkt_closes, mkt_volume) :
          /\ indices_data' = IndexIteration(indices_data, INDIAN_INDICES[idx_i], o)
          /\ hist_log' = Append(hist_log, o)
    /\ idx_i' = idx_i + 1
    /\ UNCHANGED <<mkt_closes, mkt_volume, idx_ret>>
    /\ UNCHANGED <<stk_vars, news_vars, form_vars, sheet_vars, ms_vars>>

\* return indices_data
FetchIndicesReturn ==
    /\ idx_ret = Pending
    /\ idx_i > Len(INDIAN_INDICES)
    /\ idx_ret' = Returned(indices_data)
    /\ UNCHANGED <<mkt_closes, mkt_volume, idx_i, indices_data, hist_log>>
    /\ UNCHANGED <<stk_vars, news_vars, form_vars, sheet_vars, ms_vars>>

---------------------------------------------------------------------------
(* fetch_top_stocks *)

\* data_sorted.head(5)
TopN == 5

PriceCol == "regularMarketPrice.raw"
PctCol == "regularMarketChangePercent.raw"
VolCol == "regularMarketVolume.raw"

\* Percent changes the screener reports, in tenths of a percent.
PctValues == {-40, 35, 60}

\* The filter list sent to the screener (numbers as written in the code).
Filters(region_filter, gainers) ==
    << IF gainers THEN <<"gt", "percentchange", "3">>
                  ELSE <<"lt", "percentchange", "-2.5">> ,
       <<"gt", "intradaymarketcap", IF region_filter = None THEN "2e9" ELSE "1e9">>,
       <<"gt", "intradayprice", IF region_filter = None THEN "5" ELSE "10">>,
       <<"gt", "dayvolume", "1000">> >>
    \o (IF region_filter # None
        THEN << <<"eq", "region", region_filter[1]>> >> ELSE << >>)

\* A row of the screener's frame: the four columns the code reads and one
\* of the many it does not.
ScreenerRow(i, pct) ==
    [c \in {"symbol", PriceCol, PctCol, VolCol, "shortName"} |->
        CASE c = "symbol"    -> ToString(i)
          [] c = PriceCol    -> 100 + i
          [] c = PctCol      -> pct
          [] c = VolCol      -> 2000 + i
          [] c = "shortName" -> "name"]

\* What yfs.get_data can do: raise, answer without the expected columns, or
\* answer a frame of up to MaxRows rows.
ScreenerOutcomes ==
    {[kind |-> "raise"], [kind |-> "malformed"]} \cup
    {[kind |-> "frame", rows |-> [i \in 1..n |-> ScreenerRow(i, pcts[i])]] :
        n \in 0..MaxRows, pcts \in [1..MaxRows -> PctValues]}

\* The sort direction with the flag used as it is.
AscendingSame(gainers) == gainers

\* ascending=not gainers
Ascending(gainers) == ~gainers

\* Whether row a may stand before row b in the sorted frame.
Before(a, b, ascending) ==
    IF ascending THEN a[PctCol] <= b[PctCol] ELSE a[PctCol] >= b[PctCol]

\* The first k rows of data.sort_values(PctCol, ascending): every order
\* the sort may give to rows of equal percent change (rows given by their
\* positions S in the frame).
RECURSIVE SortedHeads(_, _, _, _)
SortedHeads(rows, S, k, ascending) ==
    IF k = 0 \/ S = {} THEN {<< >>}
    ELSE UNION {
        {<<rows[i]>> \o t : t \in SortedHeads(rows, S \ {i}, k - 1, ascending)} :
            i \in {j \in S : \A m \in S : Before(rows[j], rows[m], ascending)} }

\* The projection left out: every column of the frame is returned.
SelectAllColumns(row) == row

\* [["symbol", "regularMarketPrice.raw", "regularMarketChangePercent.raw",
\*   "regularMarketVolume.raw"]].to_dict(orient="records"), for one row
SelectColumns(row) == [c \in {"symbol", PriceCol, PctCol, VolCol} |-> row[c]]

\* The except clause left out: the exception reaches the caller.
StocksOnErrorRaise == [raised |-> TRUE, value |-> << >>]

\* except Exception: return []
StocksOnError == [raised |-> FALSE, value |-> << >>]

\* The ways fetch_top_stocks can end for an answer of the screener: the
\* value returned, or an exception raised to the caller.
TopStocks(outcome, gainers) ==
    IF outcome.kind = "frame"
    THEN {[raised |-> FALSE,
           value |-> [i \in 1..Len(h) |-> SelectColumns(h[i])]] :
            h \in SortedHeads(outcome.rows, DOMAIN outcome.rows, TopN,
                              Ascending(gainers))}
    ELSE {StocksOnError}

StkIdle ==
    /\ stk_call = None
    /\ stk_ret = Pending

\* Lines 50-69: the filters are built and the screener is asked.
ScreenerQuery ==
    /\ stk_call = None
    /\ \E region_filter \in {None, Some("in")}, gainers \in BOOLEAN,
          outcome \in ScreenerOutcomes :
          stk_call' = Some([region_filter |-> region_filter,
                            gainers |-> gainers,
                            filters |-> Filters(region_filter, gainers),
                            outcome |-> outcome])
    /\ UNCHANGED stk_ret
    /\ UNCHANGED <<idx_vars, news_vars, form_vars, sheet_vars, ms_vars>>

\* Lines 70-76: the answer is sorted, cut and projected, or the except
\* clause returns [].
FetchTopStocksReturn ==
    /\ stk_call # None
    /\ stk_ret = Pending
    /\ \E r \in TopStocks(stk_call[1].outcome, stk_call[1].gainers) :
          ~r.raised /\ stk_ret' = Returned(r.value)
    /\ UNCHANGED stk_call
    /\ UNCHANGED <<idx_vars, news_vars, form_vars, sheet_vars, ms_vars>>

---------------------------------------------------------------------------
(* fetch_global_news and fetch_indian_news *)

indian_symbols ==
    << "RELIANCE.NS", "TCS.NS", "HDFCBANK.NS", "INFY.NS", "ICICIBANK.NS",
       "LT.NS", "SBIN.NS", "AXISBANK.NS", "KOTAKBANK.NS", "HINDUNILVR.NS",
       "ITC.NS", "BAJFINANCE.NS", "BHARTIARTL.NS", "ASIANPAINT.NS",
       "ULTRACEMCO.NS", "MARUTI.NS", "NESTLEIND.NS", "COALINDIA.NS",
       "POWERGRID.NS", "ONGC.NS" >>

\* The links the provider's articles point to.
Links == {"https://news/" \o ToString(n) : n \in 1..MaxLinks}

\* An article of the provider: its content, with the nested fields the
\* code reads present (Some) or missing (None).
Article(title, displayName, url) ==
    [title |-> title, displayName |-> displayName, url |-> url]

Articles ==
    {Article(Some("About " \o l), Some("Wire"), Some(l)) : l \in Links}
    \cup {Article(None, None, None)}

\* content.get("title", "Title not found")
TitleOf(article) ==
    IF article.title = None THEN "Title not found" ELSE article.title[1]

\* content.get("provider", {}).get("displayName", "Unknown")
PublisherOf(article) ==
    IF article.displayName = None THEN "Unknown" ELSE article.displayName[1]

\* content.get("canonicalUrl", {}).get("url", "No link")
LinkOf(article) == IF article.url = None THEN "No link" ELSE article.url[1]

\* What yf.Ticker(symbol).news[:1] can do: raise, or give no article or
\* the top one.
TopNewsOutcomes ==
    {[kind |-> "raise"], [kind |-> "news", articles |-> << >>]}
    \cup {[kind |-> "news", articles |-> <<a>>] : a \in Articles}

\* The membership test left out: every article is appended.
IsNewLinkAlways(link, seen) == TRUE

\* if link not in seen_links
IsNewLink(link, seen) == link \notin seen

\* The body of the article loop: news_results and seen_links after it.
RECURSIVE AppendArticles(_, _, _)
AppendArticles(st, symbol, articles) ==
    IF articles = << >> THEN st
    ELSE LET a    == Head(articles)
             link == LinkOf(a)
             nxt  == IF IsNewLink(link, st.seen_links)
                     THEN [news_results |->
                              Append(st.news_results,
                                     [symbol    |-> symbol,
                                      title     |-> TitleOf(a),
                                      publisher |-> PublisherOf(a),
                                      link      |-> link]),
                           seen_links |-> st.seen_links \cup {link}]
                     ELSE st
         IN  AppendArticles(nxt, symbol, Tail(articles))

\* One iteration of the symbol loop: a request that raises is skipped.
NewsIteration(st, symbol, outcome) ==
    IF outcome.kind = "raise" THEN st
    ELSE AppendArticles(st, symbol, outcome.articles)

\* fetch_indian_news(symbols) against the answers outcomes[1], ...
RECURSIVE IndianNewsFrom(_, _, _, _)
IndianNewsFrom(st, symbols, outcomes, i) ==
    IF i > Len(symbols) THEN st.news_results
    ELSE IndianNewsFrom(NewsIteration(st, symbols[i], outcomes[i]),
                        symbols, outcomes, i + 1)

IndianNews(symbols, outcomes) ==
    IndianNewsFrom([news_results |-> << >>, seen_links |-> {}],
                   symbols, outcomes, 1)

\* What yf.Ticker("^GSPC").news can do: raise, be None, or be a list.
GlobalNewsOutcomes(lists) ==
    {[kind |-> "raise"], [kind |-> "none"]}
    \cup {[kind |-> "news", articles |-> l] : l \in lists}

\* fetch_global_news against one answer: global_news[:5], [] on any error
\* (iterating None raises inside the try).
GlobalNews(outcome) ==
    IF outcome.kind = "news"
    THEN LET all == [i \in 1..Len(outcome.articles) |->
                        [title     |-> TitleOf(outcome.articles[i]),
                         publisher |-> PublisherOf(outcome.articles[i]),
                         link      |-> LinkOf(outcome.articles[i])]]
         IN  SubSeq(all, 1, IF Len(all) < 5 THEN Len(all) ELSE 5)
    ELSE << >>

\* The symbol lists fetch_indian_news is called with: up to MaxSymbols
\* symbols, repeats allowed.
SymbolLists ==
    UNION {[1..n -> {indian_symbols[1], indian_symbols[2], indian_symbols[3]}] :
              n \in 0..MaxSymbols}

NewsIdle ==
    /\ news_symbols = << >>
    /\ news_i = 1
    /\ news_results = << >>
    /\ seen_links = {}
    /\ news_log = << >>
    /\ news_ret = Pending

NewsInit ==
    /\ news_symbols \in SymbolLists
    /\ news_i = 1
    /\ news_results = << >>
    /\ seen_links = {}
    /\ news_log = << >>
    /\ news_ret = Pending

\* The loop body for the symbol at news_i, whatever the provider answers.
FetchNewsStep ==
    /\ news_ret = Pending
    /\ news_i <= Len(news_symbols)
    /\ \E o \in TopNewsOutcomes :
          LET st == NewsIteration([news_results |-> news_results,
                                   seen_links |-> seen_links],
                                  news_symbols[news_i], o)
          IN  /\ news_results' = st.news_results
              /\ seen_links' = st.seen_links
              /\ news_log' = Append(news_log, o)
    /\ news_i' = news_i + 1
    /\ UNCHANGED <<news_symbols, news_ret>>
    /\ UNCHANGED <<idx_vars, stk_vars, form_vars, sheet_vars, ms_vars>>

\* return news_results
FetchNewsReturn ==
    /\ news_ret = Pending
    /\ news_i > Len(news_symbols)
    /\ news_ret' = Returned(news_results)
    /\ UNCHANGED <<news_symbols, news_i, news_results, seen_links, news_log>>
    /\ UNCHANGED <<idx_vars, stk_vars, form_vars, sheet_vars, ms_vars>>

---------------------------------------------------------------------------
(* submit_form and send_email *)

\* A dict in insertion order: a sequence of <<key, value>> pairs.
DictKeys(d) == {d[i][1] : i \in DOMAIN d}

\* d.get(k, default)
DictGet(d, k, default) ==
    IF k \in DictKeys(d)
    THEN d[CHOOSE i \in DOMAIN d : d[i][1] = k][2]
    ELSE default

\* d[k] = v: an existing key keeps its place, a new one goes last.
DictSet(d, k, v) ==
    IF k \in DictKeys(d)
    THEN [i \in DOMAIN d |-> IF d[i][1] = k THEN <<k, v>> ELSE d[i]]
    ELSE Append(d, <<k, v>>)

FormKeys == {"full_name", "message", "subject", "timestamp"}
FormValues == {"", "Jo"}

\* key.replace("_", " ").title()
TitleKey(key) ==
    CASE key = "full_name" -> "Full Name"
      [] key = "message"   -> "Message"
      [] key = "subject"   -> "Subject"
      [] key = "timestamp" -> "Timestamp"

\* The forms a request can carry, as form.items() yields them: up to
\* MaxFields fields, no key twice.
Forms ==
    {f \in UNION {[1..n -> FormKeys \X FormValues] : n \in 0..MaxFields} :
        \A i, j \in DOMAIN f : i # j => f[i][1] # f[j][1]}

\* datetime.now().isoformat() at the c-th reading of the clock
NowIso(c) == "2025-01-01T00:00:0" \o ToString(c)

\* The value stored as it came.
KeepValue(value) == value

\* value if value else "Not provided"
NormalizeValue(value) == IF value = "" THEN "Not provided" ELSE value

\* for key, value in form.items(): form_data[key] = ...
RECURSIVE FormToDict(_, _)
FormToDict(f, d) ==
    IF f = << >> THEN d
    ELSE FormToDict(Tail(f), DictSet(d, Head(f)[1], NormalizeValue(Head(f)[2])))

DefaultSubject == "Aadhar Capital Website Enquiry"

\* The message send_email builds: its headers, one table row per field,
\* and the footer's time.
BuildMessage(subj, data, c) ==
    [From      |-> "akash.yadavv181198@gmail.com",
     To        |-> "support@aadhaarcapital.com",
     Subject   |-> subj,
     rows      |-> [i \in DOMAIN data |-> <<TitleKey(data[i][1]), data[i][2]>>],
     submitted |-> NowIso(c)]

SmtpSteps == <<"connect", "starttls", "login", "send", "quit">>

\* send_email without its except clause: the exception reaches the caller.
OnSmtpErrorRaise == [raised |-> TRUE, value |-> FALSE]

\* except Exception: return False
OnSmtpError == [raised |-> FALSE, value |-> FALSE]

FormIdle ==
    /\ form = << >>
    /\ password = ""
    /\ clock = 0
    /\ sf_pc = "request"
    /\ form_data = << >>
    /\ subject = ""
    /\ msg = None
    /\ smtp_log = << >>
    /\ smtp_failed = None
    /\ conn_open = FALSE
    /\ delivered = {}
    /\ email_ret = Pending
    /\ response = None

FormInit ==
    /\ form \in Forms
    /\ password \in {"", "tmnsodotbingfaqo"}
    /\ clock = 0
    /\ sf_pc = "request"
    /\ form_data = << >>
    /\ subject = ""
    /\ msg = None
    /\ smtp_log = << >>
    /\ smtp_failed = None
    /\ conn_open = FALSE
    /\ delivered = {}
    /\ email_ret = Pending
    /\ response = None

\* submit_form up to the call of send_email, and send_email up to the
\* opening of the connection; a request whose form cannot be read is
\* answered 500.
SubmitFormStart ==
    /\ sf_pc = "request"
    /\ \E readable \in BOOLEAN :
          IF readable
          THEN LET data == DictSet(FormToDict(form, << >>), "timestamp",
                                   NowIso(clock + 1))
                   subj == DictGet(data, "subject", DefaultSubject)
               IN  /\ form_data' = data
                   /\ subject' = subj
                   /\ msg' = Some(BuildMessage(subj, data, clock + 2))
                   /\ clock' = clock + 2
                   /\ sf_pc' = "connect"
                   /\ UNCHANGED response
          ELSE /\ response' = Some([status |-> 500])
               /\ sf_pc' = "done"
               /\ UNCHANGED <<form_data, subject, msg, clock>>
    /\ UNCHANGED <<form, password, smtp_log, smtp_failed, conn_open, delivered,
                   email_ret>>
    /\ UNCHANGED <<idx_vars, stk_vars, news_vars, sheet_vars, ms_vars>>

\* An SMTP call that raises: send_email ends in its except clause.  The
\* connection, if one is open, stays open unless the failure was the
\* server dropping it.
SmtpRaises(step) ==
    /\ smtp_failed' = Some(step)
    /\ email_ret' = Returned(OnSmtpError)
    /\ \E dropped \in BOOLEAN : conn_open' = (conn_open /\ ~dropped)
    /\ sf_pc' = "respond"
    /\ UNCHANGED <<smtp_log, delivered>>

SmtpSucceeds(step, next_pc) ==
    /\ smtp_log' = Append(smtp_log, step)
    /\ sf_pc' = next_pc
    /\ UNCHANGED <<smtp_failed, email_ret>>

\* server = smtplib.SMTP(host, port)
SmtpConnect ==
    /\ sf_pc = "connect"
    /\ \/ SmtpSucceeds("connect", "starttls") /\ conn_open' = TRUE
                                              /\ UNCHANGED delivered
       \/ SmtpRaises("connect")
    /\ UNCHANGED <<form, password, clock, form_data, subject, msg, response>>
    /\ UNCHANGED <<idx_vars, stk_vars, news_vars, sheet_vars, ms_vars>>

\* server.starttls()
SmtpStartTls ==
    /\ sf_pc = "starttls"
    /\ \/ SmtpSucceeds("starttls", "login") /\ UNCHANGED <<conn_open, delivered>>
       \/ SmtpRaises("starttls")
    /\ UNCHANGED <<form, password, clock, form_data, subject, msg, response>>
    /\ UNCHANGED <<idx_vars, stk_vars, news_vars, sheet_vars, ms_vars>>

\* if EMAIL_CONFIG["password"]: ... else: return False
EmailNoPassword ==
    /\ sf_pc = "login"
    /\ password = ""
    /\ email_ret' = Returned([raised |-> FALSE, value |-> FALSE])
    /\ sf_pc' = "respond"
    /\ UNCHANGED <<form, password, clock, form_data, subject, msg, smtp_log,
                   smtp_failed, conn_open, delivered, response>>
    /\ UNCHANGED <<idx_vars, stk_vars, news_vars, sheet_vars, ms_vars>>

\* server.login(email, password)
SmtpLogin ==
    /\ sf_pc = "login"
    /\ password # ""
    /\ \/ SmtpSucceeds("login", "send") /\ UNCHANGED <<conn_open, delivered>>
       \/ SmtpRaises("login")
    /\ UNCHANGED <<form, password, clock, form_data, subject, msg, response>>
    /\ UNCHANGED <<idx_vars, stk_vars, news_vars, sheet_vars, ms_vars>>

\* server.send_message(msg)
SmtpSend ==
    /\ sf_pc = "send"
    /\ \/ /\ SmtpSucceeds("send", "quit")
          /\ delivered' = delivered \cup {msg[1]}
          /\ UNCHANGED conn_open
       \/ SmtpRaises("send")
    /\ UNCHANGED <<form, password, clock, form_data, subject, msg, response>>
    /\ UNCHANGED <<idx_vars, stk_vars, news_vars, sheet_vars, ms_vars>>

\* server.quit(); return True
SmtpQuit ==
    /\ sf_pc = "quit"
    /\ \/ /\ smtp_log' = Append(smtp_log, "quit")
          /\ conn_open' = FALSE
          /\ email_ret' = Returned([raised |-> FALSE, value |-> TRUE])
          /\ sf_pc' = "respond"
          /\ UNCHANGED <<smtp_failed, delivered>>
       \/ SmtpRaises("quit")
    /\ UNCHANGED <<form, password, clock, form_data, subject, msg, response>>
    /\ UNCHANGED <<idx_vars, stk_vars, news_vars, sheet_vars, ms_vars>>

\* submit_form after send_email: the 200 answer, or 500 when send_email
\* raised.
SubmitFormRespond ==
    /\ sf_pc = "respond"
    /\ IF email_ret[1].raised
       THEN response' = Some([status |-> 500]) /\ UNCHANGED clock
       ELSE /\ response' = Some([status     |-> 200,
                                 success    |-> TRUE,
                                 message    |-> "Form submitted successfully",
                                 email_sent |-> email_ret[1].value,
                                 timestamp  |-> NowIso(clock + 1),
                                 data       |-> form_data])
            /\ clock' = clock + 1
    /\ sf_pc' = "done"
    /\ UNCHANGED <<form, password, form_data, subject, msg, smtp_log,
                   smtp_failed, conn_open, delivered, email_ret>>
    /\ UNCHANGED <<idx_vars, stk_vars, news_vars, sheet_vars, ms_vars>>

---------------------------------------------------------------------------
(* add_to_google_sheet *)

\* list(d.keys())
KeyList(d) == [i \in DOMAIN d |-> d[i][1]]

InSeq(x, s) == \E i \in DOMAIN s : s[i] = x

\* [key for key in form_data.keys() if key not in headers]
RECURSIVE NewFields(_, _)
NewFields(keys, headers) ==
    IF keys = << >> THEN << >>
    ELSE (IF InSeq(Head(keys), headers) THEN << >> ELSE <<Head(keys)>>)
         \o NewFields(Tail(keys), headers)

\* sheet.get_all_records(): one record per row below row 1.
GetAllRecords(rows) == IF Len(rows) <= 1 THEN << >> ELSE Tail(rows)

\* sheet.insert_row(values, 1)
InsertRowFirst(rows, values) == <<values>> \o rows

\* sheet.delete_rows(2)
DeleteSecondRow(rows) == <<rows[1]>> \o SubSeq(rows, 3, Len(rows))

\* sheet.append_row(values)
AppendRow(rows, values) == Append(rows, values)

\* The header list and the sheet after the header step.
SheetHeaderStep(rows, fd) ==
    IF Len(GetAllRecords(rows)) = 0
    THEN [headers |-> KeyList(fd), rows |-> InsertRowFirst(rows, KeyList(fd))]
    ELSE LET new_fields == NewFields(KeyList(fd), rows[1])
         IN  IF new_fields # << >>
             THEN [headers |-> rows[1] \o new_fields,
                   rows |-> DeleteSecondRow(
                               InsertRowFirst(rows, rows[1] \o new_fields))]
             ELSE [headers |-> rows[1], rows |-> rows]

\* The sheet after a call that returns True.
SheetAfter(rows, fd) ==
    LET h == SheetHeaderStep(rows, fd)
    IN  AppendRow(h.rows, [i \in DOMAIN h.headers |-> DictGet(fd, h.headers[i], "")])

SheetKeys == {"a", "b", "c"}
SheetValues == {"1", "2"}

\* The form_data of a call: 1 to MaxFields fields, no key twice.
SheetForms ==
    {f \in UNION {[1..n -> SheetKeys \X SheetValues] : n \in 1..MaxFields} :
        \A i, j \in DOMAIN f : i # j => f[i][1] # f[j][1]}

\* The sheets a first call can find: empty, a header row alone, or a
\* header row with a data row under it.
StartSheets ==
    { << >>,
      << <<"a">> >>,
      << <<"a">>, <<"0">> >>,
      << <<"a", "b">> >>,
      << <<"a", "b">>, <<"0", "9">> >> }

SheetIdle ==
    /\ sheet0 = << >>
    /\ sheet = << >>
    /\ sheet_calls = << >>
    /\ sheet_rets = << >>

SheetInit ==
    /\ sheet0 \in StartSheets
    /\ sheet = sheet0
    /\ sheet_calls = << >>
    /\ sheet_rets = << >>

\* One call: without credentials, or with the sheet not opening, it
\* returns False and writes nothing; otherwise it writes and returns True.
AddToGoogleSheet ==
    /\ Len(sheet_rets) < MaxCalls
    /\ \E fd \in SheetForms, outcome \in {"no_credentials", "open_raises", "ok"} :
          IF outcome = "ok"
          THEN /\ sheet' = SheetAfter(sheet, fd)
               /\ sheet_calls' = Append(sheet_calls, fd)
               /\ sheet_rets' = Append(sheet_rets, TRUE)
          ELSE /\ sheet_rets' = Append(sheet_rets, FALSE)
               /\ UNCHANGED <<sheet, sheet_calls>>
    /\ UNCHANGED sheet0
    /\ UNCHANGED <<idx_vars, stk_vars, news_vars, form_vars, ms_vars>>

---------------------------------------------------------------------------
(* market_summary *)

\* fetch_indian_indices against the answers outcomes[1], ..., outcomes[4]
RECURSIVE IndicesFrom(_, _, _)
IndicesFrom(data, outcomes, i) ==
    IF i > Len(INDIAN_INDICES) THEN data
    ELSE IndicesFrom(IndexIteration(data, INDIAN_INDICES[i], outcomes[i]),
                     outcomes, i + 1)

FetchIndianIndices(outcomes) == IndicesFrom(EmptyDict, outcomes, 1)

\* The four fetch_top_stocks calls, in order.
StockCalls ==
    << [part |-> "top5_gainers_global", region_filter |-> None,       gainers |-> TRUE],
       [part |-> "top5_losers_global",  region_filter |-> None,       gainers |-> FALSE],
       [part |-> "top5_gainers_india",  region_filter |-> Some("in"), gainers |-> TRUE],
       [part |-> "top5_losers_india",   region_filter |-> Some("in"), gainers |-> FALSE] >>

\* The provider's answers a /market-summary request is run against.
MsHistoryOutcomes == HistoryOutcomes(<<2>>, None)

MsScreenerOutcomes ==
    {[kind |-> "raise"],
     [kind |-> "frame",
      rows |-> <<ScreenerRow(1, 35), ScreenerRow(2, 60), ScreenerRow(3, -40)>>]}

MsGlobalNewsOutcomes ==
    GlobalNewsOutcomes({[i \in 1..6 |->
        IF i = 3 THEN Article(None, None, None)
        ELSE Article(Some("Global"), Some("Wire"), Some("https://news/1"))]})

MsSymbols == SubSeq(indian_symbols, 1, 2)

PartNames ==
    {"indian_indices", "top5_gainers_global", "top5_losers_global",
     "top5_gainers_india", "top5_losers_india", "global_news", "india_news"}

\* The except clause of market_summary.
Http500 == Some([status |-> 500])

MsIdle ==
    /\ ms_pc = 1
    /\ ms_upstream = EmptyDict
    /\ ms_parts = EmptyDict
    /\ ms_response = None

\* indian_indices = fetch_indian_indices()
MsFetchIndices ==
    /\ ms_pc = 1
    /\ \E outcomes \in [1..Len(INDIAN_INDICES) -> MsHistoryOutcomes] :
          /\ ms_upstream' = Put(ms_upstream, "indian_indices", outcomes)
          /\ ms_parts' = Put(ms_parts, "indian_indices", FetchIndianIndices(outcomes))
    /\ ms_pc' = 2
    /\ UNCHANGED ms_response
    /\ UNCHANGED <<idx_vars, stk_vars, news_vars, form_vars, sheet_vars>>

\* top5_... = fetch_top_stocks(region_filter=..., gainers=...)
MsFetchStocks ==
    /\ ms_pc \in 2..5
    /\ LET call == StockCalls[ms_pc - 1]
       IN  \E outcome \in MsScreenerOutcomes :
           \E r \in TopStocks(outcome, call.gainers) :
              /\ ms_upstream' = Put(ms_upstream, call.part, outcome)
              /\ IF r.raised
                 THEN /\ ms_response' = Http500
                      /\ ms_pc' = 9
                      /\ UNCHANGED ms_parts
                 ELSE /\ ms_parts' = Put(ms_parts, call.part, r.value)
                      /\ ms_pc' = ms_pc + 1
                      /\ UNCHANGED ms_response
    /\ UNCHANGED <<idx_vars, stk_vars, news_vars, form_vars, sheet_vars>>

\* global_news = fetch_global_news()
MsFetchGlobalNews ==
    /\ ms_pc = 6
    /\ \E outcome \in MsGlobalNewsOutcomes :
          /\ ms_upstream' = Put(ms_upstream, "global_news", outcome)
          /\ ms_parts' = Put(ms_parts, "global_news", GlobalNews(outcome))
    /\ ms_pc' = 7
    /\ UNCHANGED ms_response
    /\ UNCHANGED <<idx_vars, stk_vars, news_vars, form_vars, sheet_vars>>

\* indian_news = fetch_indian_news(indian_symbols)
MsFetchIndianNews ==
    /\ ms_pc = 7
    /\ \E outcomes \in [1..Len(MsSymbols) -> TopNewsOutcomes] :
          /\ ms_upstream' = Put(ms_upstream, "india_news", outcomes)
          /\ ms_parts' = Put(ms_parts, "india_news", IndianNews(MsSymbols, outcomes))
    /\ ms_pc' = 8
    /\ UNCHANGED ms_response
    /\ UNCHANGED <<idx_vars, stk_vars, news_vars, form_vars, sheet_vars>>

\* return {"success": True, "data": {...}, "timestamp": ...}
MsRespond ==
    /\ ms_pc = 8
    /\ ms_response' = Some(
          [status |-> 200,
           body |-> [success |-> TRUE,
                     data |-> [p \in PartNames |->
                        IF p = "indian_indices"
                        THEN [n \in IndexNames |->
                                 GetOr(ms_parts["indian_indices"], n, EmptyDict)]
                        ELSE ms_parts[p]],
                     timestamp |-> NowIso(1)]])
    /\ ms_pc' = 9
    /\ UNCHANGED <<ms_upstream, ms_parts>>
    /\ UNCHANGED <<idx_vars, stk_vars, news_vars, form_vars, sheet_vars>>

---------------------------------------------------------------------------
(* Specifications: one per function, the others at rest. *)

InitIndices == IdxInit /\ StkIdle /\ NewsIdle /\ FormIdle /\ SheetIdle /\ MsIdle
NextIndices == FetchIndexStep \/ FetchIndicesReturn
SpecIndices == InitIndices /\ [][NextIndices]_vars

InitStocks == IdxIdle /\ StkIdle /\ NewsIdle /\ FormIdle /\ SheetIdle /\ MsIdle
NextStocks == ScreenerQuery \/ FetchTopStocksReturn
SpecStocks == InitStocks /\ [][NextStocks]_vars

InitNews == IdxIdle /\ StkIdle /\ NewsInit /\ FormIdle /\ SheetIdle /\ MsIdle
NextNews == FetchNewsStep \/ FetchNewsReturn
SpecNews == InitNews /\ [][NextNews]_vars

InitForm == IdxIdle /\ StkIdle /\ NewsIdle /\ FormInit /\ SheetIdle /\ MsIdle
NextForm ==
    \/ SubmitFormStart
    \/ SmtpConnect
    \/ SmtpStartTls
    \/ EmailNoPassword
    \/ SmtpLogin
    \/ SmtpSend
    \/ SmtpQuit
    \/ SubmitFormRespond
SpecForm == InitForm /\ [][NextForm]_vars

InitSheet == IdxIdle /\ StkIdle /\ NewsIdle /\ FormIdle /\ SheetInit /\ MsIdle
NextSheet == AddToGoogleSheet
SpecSheet == InitSheet /\ [][NextSheet]_vars

InitSummary == IdxIdle /\ StkIdle /\ NewsIdle /\ FormIdle /\ SheetIdle /\ MsIdle
NextSummary ==
    \/ MsFetchIndices
    \/ MsFetchStocks
    \/ MsFetchGlobalNews
    \/ MsFetchIndianNews
    \/ MsRespond
SpecSummary == InitSummary /\ [][NextSummary]_vars

---------------------------------------------------------------------------
(* Properties of fetch_indian_indices. *)

Abs(x) == IF x < 0 THEN -x ELSE x

AllNull(e) ==
    /\ e.current_price = None
    /\ e.previous_close = None
    /\ e.change = None
    /\ e.change_percent = None
    /\ e.volume = None

\* The entry of the i-th configured index, once the loop has passed it.
EntryOf(i) == indices_data[INDIAN_INDICES[i].index_name]

\* C2: at every point of the loop each index already processed has its
\* entry, status "error" with all numeric fields null when its history
\* request raised, "no_data" with all numeric fields null when it returned
\* no bars, live otherwise, whatever happened to the indices before or
\* after it; the returned dict has exactly one entry per configured index.
C2_OneSnapshotPerIndex ==
    /\ \A i \in 1..Len(hist_log) :
          /\ INDIAN_INDICES[i].index_name \in DOMAIN indices_data
          /\ EntryOf(i).symbol = INDIAN_INDICES[i].symbol
          /\ hist_log[i].kind = "raise" =>
                EntryOf(i).status = "error" /\ AllNull(EntryOf(i))
          /\ (hist_log[i].kind = "frame" /\ Len(hist_log[i].Close) = 0) =>
                EntryOf(i).status = "no_data" /\ AllNull(EntryOf(i))
          /\ (hist_log[i].kind = "frame" /\ Len(hist_log[i].Close) >= 1) =>
                /\ EntryOf(i).status = "live_data"
                /\ EntryOf(i).current_price # None
    /\ idx_ret # Pending =>
          /\ DOMAIN idx_ret[1] = IndexNames
          /\ Cardinality(DOMAIN idx_ret[1]) = Len(INDIAN_INDICES)
          /\ idx_ret[1] = indices_data
          /\ Len(hist_log) = Len(INDIAN_INDICES)

\* A run that returned with a live index, then one that raised, then one
\* without bars, then a live one again.
C2_Witness ==
    /\ idx_ret # Pending
    /\ hist_log[1].kind = "frame" /\ Len(hist_log[1].Close) >= 1
    /\ hist_log[2].kind = "raise"
    /\ hist_log[3].kind = "frame" /\ Len(hist_log[3].Close) = 0
    /\ hist_log[4].kind = "frame" /\ Len(hist_log[4].Close) >= 1
    /\ idx_ret[1]["midcap_nifty"].status = "live_data"

\* C3 as stated: with at least 2 bars, previous close P and current close
\* C, status is live_data, change is exactly C - P and changePercent is
\* exactly 100*(C - P)/P (0 when P = 0); with 1 bar current = previous = the
\* bar's close and change = changePercent = 0.  (Closes are in eighths and
\* the entry's numbers in hundredths, so x = y reads 8*x = 100*y.)
C3_ExactChange ==
    \A i \in 1..Len(hist_log) :
        hist_log[i].kind = "frame" =>
            LET n == Len(hist_log[i].Close)
                C == hist_log[i].Close[n]
                P == hist_log[i].Close[n - 1]
                e == EntryOf(i)
            IN  /\ n >= 2 =>
                     /\ e.status = "live_data"
                     /\ 8 * e.change[1] = 100 * (C - P)
                     /\ P # 0 => e.change_percent[1] * P = 100 * 100 * (C - P)
                     /\ P = 0 => e.change_percent[1] = 0
                /\ n = 1 =>
                     /\ e.current_price = e.previous_close
                     /\ 8 * e.current_price[1] = 100 * C
                     /\ e.change[1] = 0
                     /\ e.change_percent[1] = 0

\* C3 amended: the same with every reported number rounded to two
\* decimals: change is within 0.005 of C - P, changePercent within 0.005
\* of 100*(C - P)/P (and 0 when P = 0); with 1 bar current = previous = the
\* bar's close within 0.005, and change = changePercent = 0.
C3_RoundedChange ==
    \A i \in 1..Len(hist_log) :
        hist_log[i].kind = "frame" =>
            LET n == Len(hist_log[i].Close)
                C == hist_log[i].Close[n]
                P == hist_log[i].Close[n - 1]
                e == EntryOf(i)
            IN  /\ n >= 2 =>
                     /\ e.status = "live_data"
                     /\ Abs(8 * e.change[1] - 100 * (C - P)) <= 4
                     /\ Abs(8 * e.current_price[1] - 100 * C) <= 4
                     /\ Abs(8 * e.previous_close[1] - 100 * P) <= 4
                     /\ P # 0 =>
                          2 * Abs(e.change_percent[1] * P - 100 * 100 * (C - P)) <= P
                     /\ P = 0 => e.change_percent[1] = 0
                /\ n = 1 =>
                     /\ e.current_price = e.previous_close
                     /\ Abs(8 * e.current_price[1] - 100 * C) <= 4
                     /\ e.change[1] = 0
                     /\ e.change_percent[1] = 0

\* A returned run with a 2-bar index whose percent change is not a whole
\* number of hundredths, and a 1-bar index.
C3_Witness ==
    /\ idx_ret # Pending
    /\ hist_log[1].kind = "frame" /\ Len(hist_log[1].Close) >= 2
    /\ mkt_closes[Len(mkt_closes) - 1] = 3
    /\ mkt_closes[Len(mkt_closes)] = 2
    /\ idx_ret[1]["nifty"].change_percent = Some(-3333)
    /\ idx_ret[1]["nifty"].change = Some(-12)
    /\ hist_log[2].kind = "frame" /\ Len(hist_log[2].Close) = 1
    /\ idx_ret[1]["sensex"].change = Some(0)

---------------------------------------------------------------------------
(* Properties of fetch_top_stocks. *)

StkFrameReturned ==
    stk_ret # Pending /\ stk_call # None /\ stk_call[1].outcome.kind = "frame"

MinOf(a, b) == IF a < b THEN a ELSE b

\* r is more extreme than q in the direction asked for.
MoreExtreme(r, q, gainers) ==
    IF gainers THEN r[PctCol] > q[PctCol] ELSE r[PctCol] < q[PctCol]

\* At most 5 rows, as many as the frame allows, each a different row of the
\* frame, and no row left out is more extreme than a row returned.
MostExtremeRows(ret, rows, gainers) ==
    /\ Len(ret) <= 5
    /\ Len(ret) = MinOf(5, Len(rows))
    /\ \A i \in 1..Len(ret) :
          \E j \in 1..Len(rows) :
              /\ rows[j]["symbol"] = ret[i]["symbol"]
              /\ rows[j][PctCol] = ret[i][PctCol]
    /\ \A i, k \in 1..Len(ret) : i # k => ret[i]["symbol"] # ret[k]["symbol"]
    /\ \A j \in 1..Len(rows) :
          (\A i \in 1..Len(ret) : ret[i]["symbol"] # rows[j]["symbol"]) =>
              \A i \in 1..Len(ret) : ~MoreExtreme(rows[j], ret[i], gainers)

\* C4 as stated: at most 5 rows, the most extreme of the frame in the
\* direction asked for, in strictly decreasing (gainers) or strictly
\* increasing (losers) order of percent change.
C4_StrictlySorted ==
    StkFrameReturned =>
        LET ret == stk_ret[1]
            c   == stk_call[1]
        IN  /\ MostExtremeRows(ret, c.outcome.rows, c.gainers)
            /\ \A i \in 1..(Len(ret) - 1) :
                  MoreExtreme(ret[i], ret[i + 1], c.gainers)

\* C4 amended: the same, the order being non-strict: rows of equal percent
\* change may follow each other, in any order.
C4_SortedTop5 ==
    StkFrameReturned =>
        LET ret == stk_ret[1]
            c   == stk_call[1]
        IN  /\ MostExtremeRows(ret, c.outcome.rows, c.gainers)
            /\ \A i \in 1..(Len(ret) - 1) :
                  ~MoreExtreme(ret[i + 1], ret[i], c.gainers)

\* A gainers call on a frame of more than 5 rows that returned 5 rows of
\* which the first has a larger percent change than the last, leaving out a
\* row with a smaller one still.
C4_Witness ==
    /\ StkFrameReturned
    /\ stk_call[1].gainers
    /\ Len(stk_call[1].outcome.rows) > 5
    /\ Len(stk_ret[1]) = 5
    /\ stk_ret[1][1][PctCol] > stk_ret[1][5][PctCol]
    /\ \E j \in 1..Len(stk_call[1].outcome.rows) :
          stk_call[1].outcome.rows[j][PctCol] < stk_ret[1][5][PctCol]

\* C5 as stated: the field names of every returned row are exactly symbol,
\* price, percentChange and volume.
C5_RenamedFields ==
    stk_ret # Pending =>
        \A i \in 1..Len(stk_ret[1]) :
            DOMAIN stk_ret[1][i] = {"symbol", "price", "percentChange", "volume"}

\* C5 amended: the field names of every returned row are exactly symbol,
\* regularMarketPrice.raw, regularMarketChangePercent.raw and
\* regularMarketVolume.raw, with the values the screener gave that symbol.
C5_RawFields ==
    stk_ret # Pending =>
        \A i \in 1..Len(stk_ret[1]) :
            /\ DOMAIN stk_ret[1][i] =
                  {"symbol", "regularMarketPrice.raw",
                   "regularMarketChangePercent.raw", "regularMarketVolume.raw"}
            /\ \E j \in 1..Len(stk_call[1].outcome.rows) :
                  \A c \in DOMAIN stk_ret[1][i] :
                      stk_ret[1][i][c] = stk_call[1].outcome.rows[j][c]

\* A losers call for India that returned some rows.
C5_Witness ==
    /\ StkFrameReturned
    /\ ~stk_call[1].gainers
    /\ stk_call[1].region_filter = Some("in")
    /\ Len(stk_ret[1]) >= 2

---------------------------------------------------------------------------
(* Properties of fetch_indian_news. *)

\* The link the k-th processed symbol's top news item resolved to, if its
\* request gave one.
ResolvedLink(k) ==
    IF news_log[k].kind = "news" /\ news_log[k].articles # << >>
    THEN Some(LinkOf(news_log[k].articles[1]))
    ELSE None

\* C6: at every point of the loop no two entries of the list share a link;
\* the links of the list are exactly those the symbols processed so far
\* resolved to; each entry carries the first symbol (in input order) that
\* resolved to its link, entries standing in the order of these first
\* symbols; a symbol whose request raised adds nothing; and the function
\* returns the list only after every symbol was processed.
C6_DedupByLink ==
    /\ \A i, j \in DOMAIN news_results :
          i # j => news_results[i].link # news_results[j].link
    /\ {news_results[i].link : i \in DOMAIN news_results}
          = {ResolvedLink(k)[1] : k \in {m \in DOMAIN news_log : ResolvedLink(m) # None}}
    /\ seen_links = {news_results[i].link : i \in DOMAIN news_results}
    /\ \A i \in DOMAIN news_results :
          \E k \in DOMAIN news_log :
              /\ ResolvedLink(k) = Some(news_results[i].link)
              /\ news_symbols[k] = news_results[i].symbol
              /\ \A m \in 1..(k - 1) : ResolvedLink(m) # Some(news_results[i].link)
              /\ \A j \in 1..(i - 1) :
                    \E m \in 1..(k - 1) : ResolvedLink(m) = Some(news_results[j].link)
    /\ \A k \in DOMAIN news_log :
          news_log[k].kind = "raise" =>
              \/ \A i \in DOMAIN news_results : news_results[i].symbol # news_symbols[k]
              \/ \E m \in DOMAIN news_log :
                    m # k /\ news_symbols[m] = news_symbols[k] /\ ResolvedLink(m) # None
    /\ Len(news_log) = news_i - 1
    /\ news_ret # Pending =>
          /\ Len(news_log) = Len(news_symbols)
          /\ news_ret[1] = news_results

\* A returned run over three symbols: the first and the third, different
\* symbols, resolved to the same link and the second raised; the list has
\* that link once, under the first symbol.
C6_Witness ==
    /\ news_ret # Pending
    /\ Len(news_symbols) = 3
    /\ news_symbols[1] # news_symbols[3]
    /\ ResolvedLink(1) # None
    /\ ResolvedLink(3) = ResolvedLink(1)
    /\ news_log[2].kind = "raise"
    /\ Len(news_ret[1]) = 1
    /\ news_ret[1][1].symbol = news_symbols[1]

---------------------------------------------------------------------------
(* Properties of submit_form and send_email. *)

EmailReturned == email_ret # Pending

\* C7: send_email never raises; it returns True only after the server
\* accepted the message (and every SMTP call succeeded); with no password
\* it returns False and nothing is sent; it returns False when connect,
\* STARTTLS, login or send raised; and once it returned, /submit-form
\* answers 200 with success true and email_sent equal to what it returned.
C7_EmailNeverRaises ==
    /\ EmailReturned =>
          /\ ~email_ret[1].raised
          /\ email_ret[1].value => (msg[1] \in delivered /\ smtp_log = SmtpSteps)
          /\ password = "" => (~email_ret[1].value /\ delivered = {})
          /\ smtp_failed # None => ~email_ret[1].value
    /\ smtp_failed # None => EmailReturned
    /\ (response # None /\ msg # None) =>
          /\ EmailReturned
          /\ response[1].status = 200
          /\ response[1].success = TRUE
          /\ response[1].email_sent = email_ret[1].value

\* A request answered 200 with email_sent false after the login raised.
C7_Witness ==
    /\ sf_pc = "done"
    /\ smtp_failed = Some("login")
    /\ response # None
    /\ response[1].status = 200
    /\ response[1].email_sent = FALSE
    /\ delivered = {}

SubmittedKeys == {form[i][1] : i \in DOMAIN form}

\* What the claim says of form_data apart from the submitted values: its
\* keys are the submitted ones and timestamp, the timestamp is the
\* server's, the subject comes from the subject field or is the default,
\* and the same mapping reaches the email's table and the response.
FormRelayed ==
    /\ DictKeys(form_data) = SubmittedKeys \cup {"timestamp"}
    /\ Len(form_data) = Cardinality(DictKeys(form_data))
    /\ DictGet(form_data, "timestamp", "") = NowIso(1)
    /\ subject = IF "subject" \in SubmittedKeys
                 THEN DictGet(form_data, "subject", "")
                 ELSE "Aadhar Capital Website Enquiry"
    /\ msg[1].Subject = subject
    /\ Len(msg[1].rows) = Len(form_data)
    /\ \A i \in DOMAIN form_data :
          msg[1].rows[i] = <<TitleKey(form_data[i][1]), form_data[i][2]>>
    /\ (response # None /\ response[1].status = 200) =>
          response[1].data = form_data

Expected(value) == IF value = "" THEN "Not provided" ELSE value

\* C8 as stated: every submitted key is in the mapping with its value, an
\* empty one replaced by "Not provided" and a non-empty one unchanged.
C8_AllValuesKept ==
    msg # None =>
        /\ FormRelayed
        /\ \A i \in DOMAIN form :
              DictGet(form_data, form[i][1], "") = Expected(form[i][2])

\* C8 amended: the same for every submitted key but timestamp; a submitted
\* field named timestamp is overwritten by the server's timestamp.
C8_ValuesKeptButTimestamp ==
    msg # None =>
        /\ FormRelayed
        /\ \A i \in DOMAIN form :
              form[i][1] # "timestamp" =>
                  DictGet(form_data, form[i][1], "") = Expected(form[i][2])

\* A request with a subject and an empty message, answered 200.
C8_Witness ==
    /\ sf_pc = "done"
    /\ form = << <<"subject", "Jo">>, <<"message", "">> >>
    /\ response # None
    /\ response[1].status = 200
    /\ response[1].data =
          << <<"subject", "Jo">>, <<"message", "Not provided">>,
             <<"timestamp", NowIso(1)>> >>
    /\ msg[1].Subject = "Jo"

\* C10: the SMTP calls happen in the order connect, STARTTLS, login, send,
\* close, and whenever send_email has returned no connection is open.
C10_OrderedAndClosed ==
    /\ Len(smtp_log) <= Len(SmtpSteps)
    /\ smtp_log = SubSeq(SmtpSteps, 1, Len(smtp_log))
    /\ EmailReturned => ~conn_open

---------------------------------------------------------------------------
(* Properties of add_to_google_sheet. *)

\* The header row the claim expects after the calls so far.
RECURSIVE ClaimedHeader(_, _)
ClaimedHeader(h, calls) ==
    IF calls = << >> THEN h
    ELSE ClaimedHeader(IF h = << >> THEN KeyList(Head(calls))
                       ELSE h \o NewFields(KeyList(Head(calls)), h),
                       Tail(calls))

Cell(row, j) == IF j <= Len(row) THEN row[j] ELSE ""

\* C9: after successful calls the sheet has one header row, in row 1: the
\* first call's keys on an empty sheet, else the old header followed by
\* the new keys; the old data rows are still below it, and each call added
\* one row, aligned with the header, "" where it has no value.
C9_OneHeaderRow ==
    sheet_calls # << >> =>
        LET header == ClaimedHeader(IF sheet0 = << >> THEN << >> ELSE sheet0[1],
                                    sheet_calls)
            base   == IF sheet0 = << >> THEN 1 ELSE Len(sheet0)
        IN  /\ Len(sheet) = base + Len(sheet_calls)
            /\ sheet[1] = header
            /\ \A r \in 2..Len(sheet0) : sheet[r] = sheet0[r]
            /\ \A c \in DOMAIN sheet_calls :
                  \A j \in DOMAIN header :
                      Cell(sheet[base + c], j) = DictGet(sheet_calls[c], header[j], "")

---------------------------------------------------------------------------
(* Properties of market_summary. *)

MsData == ms_response[1].body.data

\* C1: a /market-summary request is answered 200 with the envelope
\* {success, data, timestamp} whatever the provider answered, after every
\* sub-fetch was called; a failed call empties its own part only (an index
\* whose history raised is a null-filled "error" record, a failed
\* screener or news call an empty list, a symbol whose news raised adds
\* nothing), and every part is what its own answers alone give.
C1_SummaryAlways200 ==
    /\ ms_response # None =>
          /\ ms_response[1].status = 200
          /\ DOMAIN ms_response[1].body = {"success", "data", "timestamp"}
          /\ ms_response[1].body.success = TRUE
          /\ DOMAIN ms_upstream = PartNames
          /\ DOMAIN MsData = PartNames
          /\ DOMAIN MsData["indian_indices"] = IndexNames
          /\ \A i \in 1..Len(INDIAN_INDICES) :
                LET e == MsData["indian_indices"][INDIAN_INDICES[i].index_name]
                    o == ms_upstream["indian_indices"][i]
                IN  /\ e.symbol = INDIAN_INDICES[i].symbol
                    /\ o.kind = "raise" =>
                          e.status = "error" /\ e.current_price = None
                            /\ e.previous_close = None /\ e.change = None
                            /\ e.change_percent = None /\ e.volume = None
                    /\ (o.kind = "frame" /\ Len(o.Close) >= 1) =>
                          e.status = "live_data" /\ e.current_price # None
          /\ \A c \in 1..Len(StockCalls) :
                LET part == StockCalls[c].part
                    o    == ms_upstream[part]
                IN  /\ o.kind # "frame" => MsData[part] = << >>
                    /\ o.kind = "frame" =>
                          /\ Len(MsData[part]) = Len(o.rows)
                          /\ \A i \in 1..(Len(MsData[part]) - 1) :
                                IF StockCalls[c].gainers
                                THEN MsData[part][i][PctCol] >= MsData[part][i + 1][PctCol]
                                ELSE MsData[part][i][PctCol] <= MsData[part][i + 1][PctCol]
          /\ ms_upstream["global_news"].kind # "news" => MsData["global_news"] = << >>
          /\ ms_upstream["global_news"].kind = "news" => Len(MsData["global_news"]) = 5
          /\ {MsData["india_news"][i].link : i \in DOMAIN MsData["india_news"]}
                = {LinkOf(ms_upstream["india_news"][k].articles[1]) :
                     k \in {m \in 1..Len(MsSymbols) :
                              /\ ms_upstream["india_news"][m].kind = "news"
                              /\ ms_upstream["india_news"][m].articles # << >>}}
    /\ ms_pc = 9 => ms_response # None
    /\ ms_pc < 9 => ms_response = None

\* A request answered after the history of one index, two screener calls,
\* the global news and one symbol's news all failed, the rest answering.
C1_Witness ==
    /\ ms_response # None
    /\ ms_response[1].status = 200
    /\ ms_upstream["indian_indices"][2].kind = "raise"
    /\ ms_upstream["indian_indices"][3].kind = "frame"
    /\ Len(ms_upstream["indian_indices"][3].Close) = 1
    /\ ms_upstream["top5_gainers_global"].kind = "raise"
    /\ ms_upstream["top5_losers_global"].kind = "frame"
    /\ ms_upstream["top5_losers_india"].kind = "raise"
    /\ ms_upstream["global_news"].kind = "raise"
    /\ ms_upstream["india_news"][1].kind = "raise"
    /\ ms_upstream["india_news"][2].kind = "news"
    /\ Len(MsData["india_news"]) = 1
    /\ Len(MsData["top5_losers_global"]) = 3
    /\ MsData["top5_gainers_global"] = << >>

=============================================================================
